---- MODULE Spec2Model ----
(***************************************************************************)
(* Decision-orchestration core of silicon-empire: the Auto-Judge policy,   *)
(* the Async Joint Session, the Adversarial Hearing, Exploration, the      *)
(* Self-Healing loop with its sandbox executor, the Main Router, the free   *)
(* discussion and two concurrent Self-Healing runs that share a role       *)
(* agent, as state machines over the Session Record.                       *)
(*                                                                         *)
(* Every graph is a langgraph StateGraph(dict) whose nodes return a        *)
(* partial dict; the model applies a node's return value as an update of   *)
(* the keys it names and leaves the other keys of the record alone.  A key *)
(* the record does not hold yet reads as the default the code gives it     *)
(* (SiliconState's field default, or the second argument of state.get).    *)
(* The runtime's own step limit is not part of the model.                  *)
(***************************************************************************)
EXTENDS Integers, Sequences, FiniteSets, TLC

VARIABLES
    pc,                 \* the graph node that runs next ("END" when the run is over)
    phase,              \* SiliconState.phase
    meeting_type,       \* SiliconState.meeting_type
    proposal_buffer,    \* SiliconState.proposal_buffer
    critique_logs,      \* SiliconState.critique_logs
    decision_matrix,    \* SiliconState.decision_matrix
    l0_verdict,         \* SiliconState.l0_verdict
    meeting_transcript, \* SiliconState.meeting_transcript
    iteration_count,    \* SiliconState.iteration_count
    artifacts,          \* SiliconState.artifacts
    settings,           \* the Settings singleton of config/settings.py
    judged,             \* what the last call of auto_judge returned
    judge_calls,        \* history: number of auto_judge calls so far
    error_log,          \* state["error_log"]
    diagnosis,          \* state["diagnosis"]
    heal_action,        \* state["heal_action"]
    heal_attempts,      \* state["heal_attempts"]
    fixed_code,         \* state["fixed_code"]
    test_code,          \* state["test_code"]
    sandbox_result,     \* state["sandbox_result"]
    registry,           \* the status the run last asked the tool registry to record
    tests_failed,       \* history: number of failed sandbox tests in this run
    passes,             \* history: number of debate passes / iterations started
    proc,               \* the child process of SandboxExecutor._run_command
    timeout,            \* SandboxExecutor.timeout
    elapsed,            \* seconds the call has waited in communicate()
    timed_out,          \* history: wait_for raised asyncio.TimeoutError
    intent_category,    \* SiliconState.intent_category
    mode,               \* SiliconState.mode
    entered,            \* history: the entry nodes of the router that ran
    turn_count,         \* state["turn_count"]
    consecutive_passes, \* state["consecutive_passes"]
    next_speaker,       \* state["next_speaker"]
    max_turns,          \* state["max_turns"]
    max_rounds,         \* state["max_rounds"]
    speak_counts,       \* free discussion: transcript entries of each role
    last_entry,         \* free discussion: the last transcript entry
    fell_back,          \* free discussion: next_speaker came from the fallback
    synthesis,          \* what the last call of gm.aggregate_reviews returned
    classified,         \* what the last call of gm.parse_intent returned
    debate_input,       \* the transcript entries the last debate prompt held
    reviewed,           \* the proposal version each critique entry was given for
    session_pc,         \* concurrent runs: the node each run executes next
    session_attempts,   \* concurrent runs: each run's state["heal_attempts"]
    session_fixed_code, \* concurrent runs: each run's state["fixed_code"]
    scratchpad,         \* Redis list agent:cto:scratchpad, by authoring run
    prompt_sources      \* concurrent runs: whose thoughts a run's prompts held

vars == <<pc, phase, meeting_type, proposal_buffer, critique_logs,
          decision_matrix, l0_verdict, meeting_transcript, iteration_count,
          artifacts, settings, judged, judge_calls, error_log, diagnosis,
          heal_action, heal_attempts, fixed_code, test_code, sandbox_result,
          registry, tests_failed, passes, proc, timeout, elapsed, timed_out,
          intent_category, mode, entered, turn_count, consecutive_passes,
          next_speaker, max_turns, max_rounds, speak_counts, last_entry,
          fell_back, synthesis, classified, debate_input, reviewed, session_pc,
          session_attempts, session_fixed_code, scratchpad,
          prompt_sources>>

\* The fields of the Session Record proper.
record == <<phase, meeting_type, proposal_buffer, critique_logs,
            decision_matrix, l0_verdict, meeting_transcript, iteration_count,
            artifacts, error_log>>

\* The keys the Self-Healing nodes keep in the state dict.
healKeys == <<diagnosis, heal_action, heal_attempts, fixed_code, test_code,
              sandbox_result>>

\* The state of one call of SandboxExecutor._run_command.
sandboxKeys == <<proc, timeout, elapsed, timed_out>>

\* What the Main Router reads and writes besides phase and meeting_type.
routerKeys == <<intent_category, mode, entered>>

\* The keys the free-discussion nodes keep in the state dict.
holidayKeys == <<turn_count, consecutive_passes, next_speaker, max_turns,
                 max_rounds, speak_counts, last_entry>>

\* What the calls of the role agents were given and what they returned.
callKeys == <<fell_back, synthesis, classified, debate_input, reviewed>>

\* The runs of the Self-Healing graph that share the module's cto object.
sessionKeys == <<session_pc, session_attempts, session_fixed_code,
                 scratchpad, prompt_sources>>

\* ALL_AGENTS of graphs/holiday_chat.py
HolidayRoles == {"gm", "cgo", "coo", "cro", "cto"}

-----------------------------------------------------------------------------
(* Text: a Python str is a sequence of one-character strings.              *)

LowerAlphabet == <<"a","b","c","d","e","f","g","h","i","j","k","l","m",
                   "n","o","p","q","r","s","t","u","v","w","x","y","z">>
UpperAlphabet == <<"A","B","C","D","E","F","G","H","I","J","K","L","M",
                   "N","O","P","Q","R","S","T","U","V","W","X","Y","Z">>

\* str.upper() on one character: a lower-case letter maps to its capital,
\* every other character is left alone.
UpperChar(c) ==
    IF \E i \in 1..26 : LowerAlphabet[i] = c
    THEN UpperAlphabet[CHOOSE i \in 1..26 : LowerAlphabet[i] = c]
    ELSE c

\* str.upper()
Upper(text) == [i \in 1..Len(text) |-> UpperChar(text[i])]

\* Python's `kw in text` on strings: kw occurs as a contiguous substring.
Contains(text, kw) ==
    \E i \in 1..(Len(text) - Len(kw) + 1) :
        SubSeq(text, i, i + Len(kw) - 1) = kw

\* any(kw in text for kw in kws)
ContainsAny(text, kws) == \E kw \in kws : Contains(text, kw)

-----------------------------------------------------------------------------
(* Settings (config/settings.py) and the record's defaults (core/state.py) *)

DefaultMaxIterationCount == 5
DefaultProfitThreshold == 20
DefaultRiskThreshold == 2

DefaultSettings ==
    [max_iteration_count |-> DefaultMaxIterationCount,
     auto_approve_profit_threshold |-> DefaultProfitThreshold,
     auto_approve_risk_threshold |-> DefaultRiskThreshold]

\* A deployment that sets the three environment variables differently.
StrictSettings ==
    [max_iteration_count |-> 2,
     auto_approve_profit_threshold |-> 30,
     auto_approve_risk_threshold |-> 1]

SettingsChoices == {DefaultSettings, StrictSettings}

Reviewers == {"coo", "cro", "cto"}
Verdicts == {"APPROVE", "REJECT", "VETO", "PENDING"}

\* CritiqueEntry()
DefaultCritiqueEntry == [verdict |-> "PENDING", analysis |-> <<>>]

\* SiliconState.critique_logs default_factory
DefaultCritiqueLogs == [r \in Reviewers |-> DefaultCritiqueEntry]

\* DecisionMatrix()
DefaultDecisionMatrix ==
    [profit_pct |-> 0, risk_score |-> 0, tech_ready |-> FALSE, consensus |-> FALSE]

-----------------------------------------------------------------------------
(* Auto-Judge policy (core/guards.py)                                      *)

state_threshold_profit == settings.auto_approve_profit_threshold
state_threshold_risk == settings.auto_approve_risk_threshold
max_iterations == settings.max_iteration_count

\* "escalate" when the iteration budget is used up, else "revise"
JudgeIterationsMut(n) == IF n > max_iterations THEN "escalate" ELSE "revise"

JudgeIterations(n) == IF n >= max_iterations THEN "escalate" ELSE "revise"

\* the roles whose entry is a VETO
Vetoes(logs) == {role \in DOMAIN logs : logs[role].verdict = "VETO"}

\* number of VETO entries from which the session escalates
VetoEscalationCount == 2

TooManyVetoesMut(logs) == Cardinality(Vetoes(logs)) > VetoEscalationCount

TooManyVetoes(logs) == Cardinality(Vetoes(logs)) >= VetoEscalationCount

AutoJudgeVetoFirst(dm, logs, n) ==
    IF TooManyVetoes(logs) THEN "escalate"
    ELSE IF /\ dm.profit_pct > state_threshold_profit
            /\ dm.risk_score <= state_threshold_risk
            /\ dm.tech_ready
            /\ dm.consensus
         THEN "auto_approve"
         ELSE JudgeIterations(n)

auto_judge(dm, logs, n) ==
    IF /\ dm.profit_pct > state_threshold_profit
       /\ dm.risk_score <= state_threshold_risk
       /\ dm.tech_ready
       /\ dm.consensus
    THEN "auto_approve"
    ELSE IF TooManyVetoes(logs) THEN "escalate"
         ELSE JudgeIterations(n)

-----------------------------------------------------------------------------
(* Values shared by the specifications below                               *)

\* SiliconState.error_log = None
NoErrorLog == [set |-> FALSE, tool_name |-> ""]

\* no "sandbox_result" key in the state dict
NoSandboxResult == [kind |-> "none", success |-> FALSE, exit_code |-> 0]

\* the Self-Healing keys of a state dict that holds none of them yet
HealKeysAbsent ==
    /\ diagnosis = <<>>
    /\ heal_action = "retry"
    /\ heal_attempts = 0
    /\ fixed_code = ""
    /\ test_code = ""
    /\ sandbox_result = NoSandboxResult
    /\ registry = "none"
    /\ tests_failed = 0

\* a fresh SiliconState, apart from the fields a specification draws itself
RecordDefaults ==
    /\ meeting_type = ""
    /\ proposal_buffer = <<>>
    /\ l0_verdict = "PENDING"
    /\ meeting_transcript = <<>>
    /\ artifacts = <<>>
    /\ error_log = NoErrorLog

\* no child process yet
NoProcess == [state |-> "none", returncode |-> 0]

\* state dict without the key "max_turns"
NoMaxTurns == [set |-> FALSE, value |-> 0]

\* state dict without the key "max_rounds"
NoMaxRounds == [set |-> FALSE, value |-> 0]

\* a transcript entry without the keys "role" and "is_pass"
SystemEntry == [role |-> "", is_pass |-> FALSE]

\* no sandbox call running
SandboxKeysAbsent ==
    /\ proc = NoProcess
    /\ timeout = 0
    /\ elapsed = 0
    /\ timed_out = FALSE

\* SiliconState's defaults of the fields the router uses
RouterKeysAbsent ==
    /\ intent_category = ""
    /\ mode = "EXECUTION"
    /\ entered = <<>>

\* a state dict that holds none of the free-discussion keys
HolidayKeysAbsent ==
    /\ turn_count = 0
    /\ consecutive_passes = 0
    /\ next_speaker = ""
    /\ max_turns = NoMaxTurns
    /\ max_rounds = NoMaxRounds
    /\ speak_counts = [r \in HolidayRoles |-> 0]
    /\ last_entry = SystemEntry

\* gm.aggregate_reviews has not been called
NoSynthesis == [called |-> FALSE, matrix |-> DefaultDecisionMatrix]

\* no call of a role agent has been made
CallKeysAbsent ==
    /\ fell_back = FALSE
    /\ synthesis = NoSynthesis
    /\ classified = ""
    /\ debate_input = <<>>
    /\ reviewed = [r \in Reviewers |-> 0]

\* no run of the Self-Healing graph shares the cto object with this one
SessionKeysAbsent ==
    /\ session_pc = <<>>
    /\ session_attempts = <<>>
    /\ session_fixed_code = <<>>
    /\ scratchpad = <<>>
    /\ prompt_sources = <<>>

-----------------------------------------------------------------------------
(* Specification SpecJudge: auto_judge as a function of its inputs.  The   *)
(* record is drawn from bounded sets and auto_judge is called on it.       *)

MaxIterationInput == 6
MaxRiskInput == 3
MaxJudgeCalls == 2

ProfitInputs == {0, 20, 21, 25, 31}

MatrixInputs ==
    [profit_pct : ProfitInputs, risk_score : 0..MaxRiskInput,
     tech_ready : BOOLEAN, consensus : BOOLEAN]

CritiqueInputs ==
    {[r \in Reviewers |-> [verdict |-> v[r], analysis |-> <<>>]] :
        v \in [Reviewers -> Verdicts]}

JudgeInit ==
    /\ pc = "gm_judge"
    /\ phase = "AGGREGATED"
    /\ decision_matrix \in MatrixInputs
    /\ critique_logs \in CritiqueInputs
    /\ iteration_count \in 0..MaxIterationInput
    /\ settings \in SettingsChoices
    /\ judged = "none"
    /\ judge_calls = 0
    /\ passes = 0
    /\ RecordDefaults
    /\ HealKeysAbsent
    /\ CallKeysAbsent
    /\ SessionKeysAbsent
    /\ SandboxKeysAbsent
    /\ RouterKeysAbsent
    /\ HolidayKeysAbsent

\* a call that also counts the round it judged
JudgeCallCounting ==
    /\ pc = "gm_judge"
    /\ judge_calls < MaxJudgeCalls
    /\ judged' = auto_judge(decision_matrix, critique_logs, iteration_count)
    /\ judge_calls' = judge_calls + 1
    /\ iteration_count' = iteration_count + 1
    /\ UNCHANGED <<pc, phase, meeting_type, proposal_buffer, critique_logs,
                   decision_matrix, l0_verdict, meeting_transcript, artifacts,
                   error_log, settings, passes, registry, tests_failed>>
    /\ UNCHANGED healKeys
    /\ UNCHANGED <<sandboxKeys, routerKeys, holidayKeys, sessionKeys,
                   callKeys>>

\* gm_judge: s = SiliconState(**state); return auto_judge(s)
JudgeCall ==
    /\ pc = "gm_judge"
    /\ judge_calls < MaxJudgeCalls
    /\ judged' = auto_judge(decision_matrix, critique_logs, iteration_count)
    /\ judge_calls' = judge_calls + 1
    /\ UNCHANGED record
    /\ UNCHANGED <<pc, settings, passes, registry, tests_failed>>
    /\ UNCHANGED healKeys
    /\ UNCHANGED <<sandboxKeys, routerKeys, holidayKeys, sessionKeys,
                   callKeys>>

JudgeNext == JudgeCall

SpecJudge == JudgeInit /\ [][JudgeNext]_vars

\* the four auto-approve conditions, as the claims state them
AllGreen ==
    /\ decision_matrix.profit_pct > settings.auto_approve_profit_threshold
    /\ decision_matrix.risk_score <= settings.auto_approve_risk_threshold
    /\ decision_matrix.tech_ready
    /\ decision_matrix.consensus

VetoCount == Cardinality({r \in Reviewers : critique_logs[r].verdict = "VETO"})

\* C1: auto_judge returns auto_approve exactly when profit_pct is above the
\* profit threshold, risk_score is at most the risk threshold, tech_ready and
\* consensus hold, whatever the verdicts and the iteration count are; with
\* the default thresholds, profit 25, risk 1, no veto and iteration 0 give
\* auto_approve.
C1_AutoApproveIff ==
    judge_calls > 0 =>
        /\ (judged = "auto_approve") <=> AllGreen
        /\ ( /\ settings = DefaultSettings
             /\ decision_matrix = [profit_pct |-> 25, risk_score |-> 1,
                                    tech_ready |-> TRUE, consensus |-> TRUE]
             /\ VetoCount = 0
             /\ iteration_count = 0 ) => judged = "auto_approve"

C1_Witness ==
    /\ judge_calls > 0
    /\ settings = DefaultSettings
    /\ decision_matrix = [profit_pct |-> 25, risk_score |-> 1,
                           tech_ready |-> TRUE, consensus |-> TRUE]
    /\ VetoCount = 0
    /\ iteration_count = 0
    /\ judged = "auto_approve"

\* C2: when the four conditions do not all hold, auto_judge returns escalate
\* exactly when at least two entries are VETO or iteration_count has reached
\* max_iterations, and revise otherwise; with max_iterations 5 and exactly one
\* VETO it is revise at iteration 4 and escalate at iteration 5.
C2_EscalateOrRevise ==
    (judge_calls > 0 /\ ~AllGreen) =>
        /\ judged \in {"escalate", "revise"}
        /\ (judged = "escalate") <=>
               (VetoCount >= 2 \/ iteration_count >= settings.max_iteration_count)
        /\ (settings.max_iteration_count = 5 /\ VetoCount = 1) =>
               /\ iteration_count = 4 => judged = "revise"
               /\ iteration_count = 5 => judged = "escalate"

C2_Witness ==
    /\ judge_calls > 0
    /\ ~AllGreen
    /\ settings.max_iteration_count = 5
    /\ VetoCount = 1
    /\ iteration_count = 4
    /\ judged = "revise"

\* C3 as stated: two VETO entries and a matrix that passes the auto-approve
\* conditions give escalate.
C3_Original ==
    (judge_calls > 0 /\ VetoCount = 2 /\ AllGreen) => judged = "escalate"

\* C3, amended: two VETO entries give escalate when the matrix fails at least
\* one of the four auto-approve conditions, and auto_approve when it passes
\* all four.
C3_TwoVetoes ==
    (judge_calls > 0 /\ VetoCount = 2) =>
        /\ ~AllGreen => judged = "escalate"
        /\ AllGreen => judged = "auto_approve"

C3_Witness ==
    /\ judge_calls > 0
    /\ VetoCount = 2
    /\ decision_matrix.profit_pct > settings.auto_approve_profit_threshold
    /\ decision_matrix.risk_score <= settings.auto_approve_risk_threshold
    /\ decision_matrix.tech_ready
    /\ ~decision_matrix.consensus
    /\ iteration_count = 0
    /\ judged = "escalate"

-----------------------------------------------------------------------------
(* Verdict extraction of the reviewers (agents/l2_coo.py, l2_cro.py,       *)
(* l2_cto.py): the verdict is read off the upper-cased response text.      *)

K_VETO == <<"V","E","T","O">>
K_REJECT == <<"R","E","J","E","C","T">>
K_YES == <<"Y","E","S">>
K_NO == <<"N","O">>

\* `w in text.split()`: w stands in text as a whole blank-separated word
HasWord(text, w) ==
    \E i \in 1..(Len(text) - Len(w) + 1) :
        /\ SubSeq(text, i, i + Len(w) - 1) = w
        /\ (i = 1 \/ text[i - 1] = " ")
        /\ (i + Len(w) - 1 = Len(text) \/ text[i + Len(w)] = " ")

\* COOAgent.review_proposal: REJECT is looked for first, then VETO
CooVerdict(response) ==
    IF Contains(Upper(response), K_REJECT) THEN "REJECT"
    ELSE IF Contains(Upper(response), K_VETO) THEN "VETO"
    ELSE "APPROVE"

\* CROAgent.review_proposal: VETO is looked for first, then REJECT
CroVerdict(response) ==
    IF Contains(Upper(response), K_VETO) THEN "VETO"
    ELSE IF Contains(Upper(response), K_REJECT) THEN "REJECT"
    ELSE "APPROVE"

\* CTOAgent.review_proposal: the word NO without any YES rejects, then VETO
CtoVerdict(response) ==
    IF HasWord(Upper(response), K_NO) /\ ~Contains(Upper(response), K_YES)
    THEN "REJECT"
    ELSE IF Contains(Upper(response), K_VETO) THEN "VETO"
    ELSE "APPROVE"

\* review_proposal's "critique_entry": CritiqueEntry(verdict, analysis=response)
ReviewEntry(role, response) ==
    [verdict |-> CASE role = "coo" -> CooVerdict(response)
                   [] role = "cro" -> CroVerdict(response)
                   [] OTHER -> CtoVerdict(response),
     analysis |-> response]

\* what the reasoning oracle may answer to a review prompt
ReviewTexts ==
    { <<"o","k">>,
      <<"r","e","j","e","c","t">>,
      <<"V","E","T","O">>,
      <<"V","E","T","O"," ","R","E","J","E","C","T">>,
      <<"N","O">> }

-----------------------------------------------------------------------------
(* Async Joint Session (graphs/async_session.py)                           *)

\* critiques[role] = entry kept as the only entry
PutOnly(d, k, v) == [x \in {k} |-> v]

\* Python's d[k] = v on a copy of the dict d
Put(d, k, v) == [x \in (DOMAIN d) \cup {k} |-> IF x = k THEN v ELSE d[x]]

\* the matrix a caller may hand in with the request context (main.py:150)
PassingMatrix ==
    [profit_pct |-> 31, risk_score |-> 1, tech_ready |-> TRUE, consensus |-> TRUE]

AsyncInit ==
    /\ pc = "cgo_propose"
    /\ phase = "START"
    /\ decision_matrix \in {DefaultDecisionMatrix, PassingMatrix}
    /\ critique_logs = DefaultCritiqueLogs
    /\ iteration_count = 0
    /\ settings \in SettingsChoices
    /\ judged = "none"
    /\ judge_calls = 0
    /\ passes = 0
    /\ RecordDefaults
    /\ HealKeysAbsent
    /\ CallKeysAbsent
    /\ SessionKeysAbsent
    /\ SandboxKeysAbsent
    /\ RouterKeysAbsent
    /\ HolidayKeysAbsent

AsyncFrame == UNCHANGED <<settings, passes, registry, tests_failed, error_log>>
                 /\ UNCHANGED healKeys
                 /\ UNCHANGED <<sandboxKeys, routerKeys, holidayKeys, sessionKeys,
                               fell_back, classified, debate_input>>

\* a proposal that takes the place of the earlier ones
cgo_propose_replacing ==
    /\ pc = "cgo_propose"
    /\ proposal_buffer' =
           <<[version |-> Len(proposal_buffer) + 1, author |-> "CGO",
              content |-> "proposal"]>>
    /\ pc' = "coo_review"
    /\ UNCHANGED <<phase, meeting_type, critique_logs, decision_matrix,
                   l0_verdict, meeting_transcript, iteration_count, artifacts,
                   judged, judge_calls>>
    /\ UNCHANGED <<synthesis, reviewed>>
    /\ AsyncFrame

cgo_propose ==
    /\ pc = "cgo_propose"
    /\ proposal_buffer' = Append(proposal_buffer,
           [version |-> Len(proposal_buffer) + 1, author |-> "CGO",
            content |-> "proposal"])
    /\ pc' = "coo_review"
    /\ UNCHANGED <<phase, meeting_type, critique_logs, decision_matrix,
                   l0_verdict, meeting_transcript, iteration_count, artifacts,
                   judged, judge_calls>>
    /\ UNCHANGED <<synthesis, reviewed>>
    /\ AsyncFrame

\* a review of the first proposal of the buffer
ReviewedProposalFirst(buffer) ==
    IF buffer = <<>> THEN 0 ELSE buffer[1].version

\* review_proposal: proposal = state.proposal_buffer[-1] if
\* state.proposal_buffer else {}; the version of the proposal the prompt holds
ReviewedProposal(buffer) ==
    IF buffer = <<>> THEN 0 ELSE buffer[Len(buffer)].version

\* coo_review, cro_review, cto_review: one reviewer overwrites its own entry
Review(role, next) ==
    /\ pc = role \o "_review"
    /\ reviewed' = [reviewed EXCEPT ![role] = ReviewedProposal(proposal_buffer)]
    /\ \E response \in ReviewTexts :
           critique_logs' = Put(critique_logs, role, ReviewEntry(role, response))
    /\ pc' = next
    /\ UNCHANGED <<phase, meeting_type, proposal_buffer, decision_matrix,
                   l0_verdict, meeting_transcript, iteration_count, artifacts,
                   judged, judge_calls>>
    /\ UNCHANGED synthesis
    /\ AsyncFrame

coo_review == Review("coo", "cro_review")
cro_review == Review("cro", "cto_review")
cto_review == Review("cto", "gm_aggregate")

\* the matrix the answer of the synthesis call may state
SynthesisAnswers ==
    {PassingMatrix,
     [profit_pct |-> 20, risk_score |-> 3, tech_ready |-> FALSE,
      consensus |-> FALSE]}

\* gm_aggregate: the synthesis call's result is dropped, only phase is set
gm_aggregate ==
    /\ pc = "gm_aggregate"
    /\ \E m \in SynthesisAnswers : synthesis' = [called |-> TRUE, matrix |-> m]
    /\ phase' = "AGGREGATED"
    /\ pc' = "gm_judge"
    /\ UNCHANGED <<meeting_type, proposal_buffer, critique_logs,
                   decision_matrix, l0_verdict, meeting_transcript,
                   iteration_count, artifacts, judged, judge_calls>>
    /\ UNCHANGED reviewed
    /\ AsyncFrame

\* the conditional edge after gm_aggregate
gm_judge ==
    /\ pc = "gm_judge"
    /\ phase = "AGGREGATED"
    /\ judged' = auto_judge(decision_matrix, critique_logs, iteration_count)
    /\ judge_calls' = judge_calls + 1
    /\ pc' = CASE judged' = "auto_approve" -> "execute_approved"
               [] judged' = "revise" -> "request_revision"
               [] OTHER -> "escalate_to_hearing"
    /\ UNCHANGED record
    /\ UNCHANGED <<synthesis, reviewed>>
    /\ AsyncFrame

execute_approved ==
    /\ pc = "execute_approved"
    /\ l0_verdict' = "AUTO_APPROVED"
    /\ phase' = "EXECUTION"
    /\ pc' = "END"
    /\ UNCHANGED <<meeting_type, proposal_buffer, critique_logs,
                   decision_matrix, meeting_transcript, iteration_count,
                   artifacts, judged, judge_calls>>
    /\ UNCHANGED <<synthesis, reviewed>>
    /\ AsyncFrame

\* a revision that counts for two
request_revision_by_two ==
    /\ pc = "request_revision"
    /\ iteration_count' = iteration_count + 2
    /\ phase' = "REVISING"
    /\ pc' = "cgo_propose"
    /\ UNCHANGED <<meeting_type, proposal_buffer, critique_logs,
                   decision_matrix, l0_verdict, meeting_transcript, artifacts,
                   judged, judge_calls>>
    /\ UNCHANGED <<synthesis, reviewed>>
    /\ AsyncFrame

\* a revision that goes back to the first review and skips the proposal
request_revision_to_review ==
    /\ pc = "request_revision"
    /\ iteration_count' = iteration_count + 1
    /\ phase' = "REVISING"
    /\ pc' = "coo_review"
    /\ UNCHANGED <<meeting_type, proposal_buffer, critique_logs,
                   decision_matrix, l0_verdict, meeting_transcript, artifacts,
                   judged, judge_calls>>
    /\ UNCHANGED <<synthesis, reviewed>>
    /\ AsyncFrame

request_revision ==
    /\ pc = "request_revision"
    /\ iteration_count' = iteration_count + 1
    /\ phase' = "REVISING"
    /\ pc' = "cgo_propose"
    /\ UNCHANGED <<meeting_type, proposal_buffer, critique_logs,
                   decision_matrix, l0_verdict, meeting_transcript, artifacts,
                   judged, judge_calls>>
    /\ UNCHANGED <<synthesis, reviewed>>
    /\ AsyncFrame

escalate_to_hearing ==
    /\ pc = "escalate_to_hearing"
    /\ meeting_type' = "ADVERSARIAL_HEARING"
    /\ phase' = "ESCALATED"
    /\ pc' = "END"
    /\ UNCHANGED <<proposal_buffer, critique_logs, decision_matrix,
                   l0_verdict, meeting_transcript, iteration_count, artifacts,
                   judged, judge_calls>>
    /\ UNCHANGED <<synthesis, reviewed>>
    /\ AsyncFrame

AsyncNext ==
    \/ cgo_propose
    \/ coo_review
    \/ cro_review
    \/ cto_review
    \/ gm_aggregate
    \/ gm_judge
    \/ execute_approved
    \/ request_revision
    \/ escalate_to_hearing

SpecAsync == AsyncInit /\ [][AsyncNext]_vars

\* every node of the graph returns, and the runtime then runs the next node
SpecAsyncFair == SpecAsync /\ WF_vars(AsyncNext)

C5_CritiqueKeysFixed ==
    /\ [](phase = "AGGREGATED" => DOMAIN critique_logs = Reviewers)
    /\ [][DOMAIN critique_logs' = DOMAIN critique_logs]_vars

C5_Witness ==
    /\ pc = "gm_judge"
    /\ phase = "AGGREGATED"
    /\ iteration_count >= 1
    /\ critique_logs["coo"].verdict = "REJECT"
    /\ critique_logs["cro"].verdict = "VETO"
    /\ critique_logs["cto"].verdict = "APPROVE"

\* C22: once the Aggregate stage has run, decision_matrix holds the values
\* its synthesis call produced, so that the Judge, which reads
\* decision_matrix, decides on those values.
C22_MatrixFromSynthesis ==
    synthesis.called => decision_matrix = synthesis.matrix

\* the edges the stages of the Async Joint Session may take
C30_Edges ==
    { <<"cgo_propose", "coo_review">>, <<"coo_review", "cro_review">>,
      <<"cro_review", "cto_review">>, <<"cto_review", "gm_aggregate">>,
      <<"gm_aggregate", "gm_judge">>, <<"gm_judge", "execute_approved">>,
      <<"gm_judge", "request_revision">>, <<"gm_judge", "escalate_to_hearing">>,
      <<"request_revision", "cgo_propose">>, <<"execute_approved", "END">>,
      <<"escalate_to_hearing", "END">> }

\* C30: the stages of a round run in the order Propose, Review(coo),
\* Review(cro), Review(cto), Aggregate, Judge; the only edge that leads back
\* is the one from Revise to Propose; Approve sets l0_verdict to
\* AUTO_APPROVED; after Approve and after Escalate no stage runs.
C30_StageOrder ==
    /\ [][pc' # pc => <<pc, pc'>> \in C30_Edges]_vars
    /\ [][pc = "execute_approved" => l0_verdict' = "AUTO_APPROVED"]_vars
    /\ [][pc = "END" => UNCHANGED vars]_vars
    /\ [](pc = "END" => phase \in {"EXECUTION", "ESCALATED"})

C30_Witness ==
    /\ pc = "END"
    /\ phase = "ESCALATED"
    /\ l0_verdict = "PENDING"
    /\ iteration_count = 1
    /\ Len(proposal_buffer) = 2
    /\ synthesis.called

\* C31: whenever the Judge runs, each of the three critique entries was
\* written by a review of the last entry of proposal_buffer, that is by a
\* Review stage that ran after the most recent Propose.
C31_JudgesLatestReviews ==
    pc = "gm_judge" =>
        /\ proposal_buffer # <<>>
        /\ \A r \in Reviewers :
              /\ reviewed[r] = proposal_buffer[Len(proposal_buffer)].version
              /\ reviewed[r] = Len(proposal_buffer)
              /\ critique_logs[r].verdict # "PENDING"

C31_Witness ==
    /\ pc = "gm_judge"
    /\ iteration_count = 1
    /\ Len(proposal_buffer) = 2
    /\ \A r \in Reviewers : reviewed[r] = 2
    /\ critique_logs["cro"].verdict = "VETO"

\* C6: across an Async Joint Session run iteration_count never decreases,
\* changes only by +1 at the Revise stage, and is at most max_iterations in
\* every state up to and including the Approve or Escalate terminal.
C6_IterationBounded ==
    /\ [](iteration_count <= settings.max_iteration_count)
    /\ [][iteration_count' # iteration_count =>
             /\ pc = "request_revision"
             /\ iteration_count' = iteration_count + 1]_vars

C6_Witness ==
    /\ pc = "END"
    /\ phase = "ESCALATED"
    /\ settings = DefaultSettings
    /\ iteration_count = 5

\* the verdict the priority VETO over REJECT over APPROVE gives a review text
PriorityVerdict(text) ==
    IF Contains(Upper(text), K_VETO) THEN "VETO"
    ELSE IF Contains(Upper(text), K_REJECT) THEN "REJECT"
    ELSE "APPROVE"

\* C12: for every reviewer role the verdict stored with a review follows the
\* priority VETO over REJECT over APPROVE on the review text.
C12_VerdictPriority ==
    \A r \in Reviewers :
        critique_logs[r].verdict # "PENDING" =>
            critique_logs[r].verdict = PriorityVerdict(critique_logs[r].analysis)

-----------------------------------------------------------------------------
(* Self-Healing loop (graphs/self_heal.py)                                 *)

MaxFragments == 2

\* pieces the diagnosis text of the reasoning oracle is made of
Fragments ==
    { <<"R","E","B","U","I","L","D">>,
      <<"c","o","d","e">>,
      <<"B","u","g">>,
      <<"l","o","g","i","c">>,
      <<"A","P","I","_">>,
      <<"C","H","A","N","G","E">>,
      <<"c","o","n","f","i","g">>,
      <<"E","N","V">>,
      <<"s","e","c","r","e","t">>,
      <<"T","I","M","E","O","U","T">>,
      <<"o","k"," ">> }

RECURSIVE TextsUpTo(_)
TextsUpTo(n) ==
    IF n = 0 THEN {<<>>}
    ELSE TextsUpTo(n - 1) \cup {t \o f : t \in TextsUpTo(n - 1), f \in Fragments}

DiagnosisTexts == TextsUpTo(MaxFragments)

RebuildKeywords ==
    { <<"R","E","B","U","I","L","D">>, <<"C","O","D","E">>, <<"B","U","G">>,
      <<"L","O","G","I","C">>, <<"A","P","I","_","C","H","A","N","G","E">> }
ConfigKeywords ==
    { <<"C","O","N","F","I","G">>, <<"E","N","V">>, <<"S","E","C","R","E","T">> }
RetryKeywords ==
    { <<"N","E","T","W","O","R","K">>, <<"T","I","M","E","O","U","T">>,
      <<"R","A","T","E","_","L","I","M","I","T">> }

\* the configuration keywords looked for before the rebuild keywords
ClassifyConfigFirst(text) ==
    IF ContainsAny(Upper(text), ConfigKeywords) THEN "config_fix"
    ELSE IF ContainsAny(Upper(text), RebuildKeywords) THEN "rebuild"
    ELSE "retry"

\* cto_diagnose, lines 57-63: the repair action read off the diagnosis text
Classify(text) ==
    IF ContainsAny(Upper(text), RebuildKeywords) THEN "rebuild"
    ELSE IF ContainsAny(Upper(text), ConfigKeywords) THEN "config_fix"
    ELSE IF ContainsAny(Upper(text), RetryKeywords) THEN "retry"
    ELSE "retry"

route_diagnosis_config_rebuild(action) ==
    CASE action = "retry" -> "retry"
      [] OTHER -> "autolab_rebuild"

\* the conditional edge after cto_diagnose: route_diagnosis and its edge map
route_diagnosis(action) ==
    CASE action = "retry" -> "retry"
      [] action = "rebuild" -> "autolab_rebuild"
      [] OTHER -> "config_fix"

\* the attempt count from which a failed test gives up
HealAttemptCap == 3

route_test_result_late(ph, attempts) ==
    IF ph = "test_passed" THEN "deploy_fix"
    ELSE IF attempts > HealAttemptCap THEN "give_up"
    ELSE "autolab_rebuild"

\* a routing that never loops back to the rebuild
route_test_result_no_loop(ph, attempts) ==
    IF ph = "test_passed" THEN "deploy_fix" ELSE "give_up"

\* the conditional edge after sandbox_test: route_test_result and its edge map
route_test_result(ph, attempts) ==
    IF ph = "test_passed" THEN "deploy_fix"
    ELSE IF attempts >= HealAttemptCap THEN "give_up"
    ELSE "autolab_rebuild"

\* the tool names an error report may carry (SelfHealRequest.tool_name)
ToolNames == {"", "scraper"}

\* what auto_lab.generate_fix may answer: nothing, code that does not
\* compile, code that compiles
FixCodes == {"", "malformed", "wellformed"}
TestCodes == {"", "test"}

\* the results SandboxExecutor._run_command can return for a run
RunOutcomes ==
    { [kind |-> "run", success |-> TRUE, exit_code |-> 0],
      [kind |-> "run", success |-> FALSE, exit_code |-> 1],
      [kind |-> "run", success |-> FALSE, exit_code |-> -1],
      [kind |-> "run", success |-> FALSE, exit_code |-> -2] }

\* the valid_syntax answers SandboxExecutor.run_syntax_check can give for a
\* piece of code: py_compile exits non-zero on code that does not compile;
\* on code that compiles it exits 0, unless the check itself times out or
\* cannot be started (exit codes -1, -2), which also reads as invalid
SyntaxCheckSkipped(code) == {TRUE}

SyntaxCheck(code) == IF code = "malformed" THEN {FALSE} ELSE {TRUE, FALSE}

HealInit ==
    /\ pc = "error_trap"
    /\ phase = "INIT"
    /\ error_log \in {[set |-> TRUE, tool_name |-> t] : t \in ToolNames}
    /\ meeting_type = ""
    /\ proposal_buffer = <<>>
    /\ l0_verdict = "PENDING"
    /\ meeting_transcript = <<>>
    /\ artifacts = <<>>
    /\ decision_matrix = DefaultDecisionMatrix
    /\ critique_logs = DefaultCritiqueLogs
    /\ iteration_count = 0
    /\ settings = DefaultSettings
    /\ judged = "none"
    /\ judge_calls = 0
    /\ passes = 0
    /\ HealKeysAbsent
    /\ CallKeysAbsent
    /\ SessionKeysAbsent
    /\ SandboxKeysAbsent
    /\ RouterKeysAbsent
    /\ HolidayKeysAbsent

HealFrame ==
    UNCHANGED <<meeting_type, proposal_buffer, critique_logs, decision_matrix,
                l0_verdict, meeting_transcript, iteration_count, artifacts,
                settings, judged, judge_calls, passes, sandboxKeys,
                routerKeys, holidayKeys,
                sessionKeys, callKeys>>

error_trap ==
    /\ pc = "error_trap"
    /\ phase' = "diagnosing"
    /\ heal_attempts' = 0
    /\ pc' = "cto_diagnose"
    /\ UNCHANGED <<error_log, diagnosis, heal_action, fixed_code, test_code,
                   sandbox_result, registry, tests_failed>>
    /\ HealFrame

cto_diagnose ==
    /\ pc = "cto_diagnose"
    /\ \E text \in DiagnosisTexts :
          /\ diagnosis' = text
          /\ heal_action' = Classify(text)
          /\ phase' = Classify(text)
    /\ pc' = route_diagnosis(heal_action')
    /\ UNCHANGED <<error_log, heal_attempts, fixed_code, test_code,
                   sandbox_result, registry, tests_failed>>
    /\ HealFrame

retry_action_uncounted ==
    /\ pc = "retry"
    /\ phase' = "testing"
    /\ pc' = "sandbox_test"
    /\ UNCHANGED <<heal_attempts, error_log, diagnosis, heal_action, fixed_code,
                   test_code, sandbox_result, registry, tests_failed>>
    /\ HealFrame

retry_action ==
    /\ pc = "retry"
    /\ phase' = "testing"
    /\ heal_attempts' = heal_attempts + 1
    /\ pc' = "sandbox_test"
    /\ UNCHANGED <<error_log, diagnosis, heal_action, fixed_code, test_code,
                   sandbox_result, registry, tests_failed>>
    /\ HealFrame

autolab_rebuild_uncounted ==
    /\ pc = "autolab_rebuild"
    /\ phase' = "testing"
    /\ fixed_code' \in FixCodes
    /\ test_code' \in TestCodes
    /\ pc' = "sandbox_test"
    /\ UNCHANGED <<heal_attempts, error_log, diagnosis, heal_action,
                   sandbox_result, registry, tests_failed>>
    /\ HealFrame

autolab_rebuild ==
    /\ pc = "autolab_rebuild"
    /\ phase' = "testing"
    /\ fixed_code' \in FixCodes
    /\ test_code' \in TestCodes
    /\ heal_attempts' = heal_attempts + 1
    /\ pc' = "sandbox_test"
    /\ UNCHANGED <<error_log, diagnosis, heal_action, sandbox_result,
                   registry, tests_failed>>
    /\ HealFrame

\* a config_fix that ends the run without labelling the phase
config_fix_unlabelled ==
    /\ pc = "config_fix"
    /\ pc' = "END"
    /\ UNCHANGED <<phase, error_log, registry, tests_failed>>
    /\ UNCHANGED healKeys
    /\ HealFrame

config_fix ==
    /\ pc = "config_fix"
    /\ phase' = "needs_human"
    /\ pc' = "END"
    /\ UNCHANGED <<error_log, registry, tests_failed>>
    /\ UNCHANGED healKeys
    /\ HealFrame

sandbox_test ==
    /\ pc = "sandbox_test"
    /\ \/ /\ fixed_code = ""
          /\ phase' = "test_passed"
          /\ sandbox_result' = [kind |-> "trivial", success |-> TRUE, exit_code |-> 0]
       \/ /\ fixed_code # ""
          /\ \E valid_syntax \in SyntaxCheck(fixed_code) :
                \/ /\ ~valid_syntax
                   /\ phase' = "test_failed"
                   /\ sandbox_result' =
                         [kind |-> "syntax", success |-> FALSE, exit_code |-> 1]
                \/ /\ valid_syntax
                   /\ \E result \in RunOutcomes :
                         /\ sandbox_result' = result
                         /\ phase' = IF result.success THEN "test_passed"
                                     ELSE "test_failed"
    /\ tests_failed' = IF phase' = "test_failed" THEN tests_failed + 1 ELSE tests_failed
    /\ pc' = route_test_result(phase', heal_attempts)
    /\ UNCHANGED <<error_log, diagnosis, heal_action, heal_attempts, fixed_code,
                   test_code, registry>>
    /\ HealFrame

deploy_fix ==
    /\ pc = "deploy_fix"
    /\ registry' = IF error_log.tool_name # "" THEN "ACTIVE" ELSE registry
    /\ phase' = "healed"
    /\ error_log' = NoErrorLog
    /\ pc' = "END"
    /\ UNCHANGED tests_failed
    /\ UNCHANGED healKeys
    /\ HealFrame

give_up ==
    /\ pc = "give_up"
    /\ registry' = IF error_log.tool_name # "" THEN "BROKEN" ELSE registry
    /\ phase' = "broken"
    /\ pc' = "END"
    /\ UNCHANGED <<error_log, tests_failed>>
    /\ UNCHANGED healKeys
    /\ HealFrame

HealNext ==
    \/ error_trap
    \/ cto_diagnose
    \/ retry_action
    \/ autolab_rebuild
    \/ config_fix
    \/ sandbox_test
    \/ deploy_fix
    \/ give_up

SpecHeal == HealInit /\ [][HealNext]_vars

\* C23: after a Rebuild pass the run reaches healed, or asks the registry for
\* the status ACTIVE, only if the sandbox ran the generated fix with its test
\* and the run succeeded; an empty fix is never deployed.
C23_HealedOnlyAfterRealRun ==
    (heal_action = "rebuild" /\ (phase = "healed" \/ registry = "ACTIVE")) =>
        /\ fixed_code # ""
        /\ sandbox_result.kind = "run"
        /\ sandbox_result.success

\* C7: whenever give_up is entered the attempt counter is at most 3 and at
\* least one sandbox test of the same run has failed before.
C7_GiveUpAfterFailure ==
    (pc = "give_up" \/ phase = "broken") =>
        /\ heal_attempts <= 3
        /\ tests_failed >= 1
        /\ sandbox_result.success = FALSE

C7_Witness ==
    /\ pc = "give_up"
    /\ heal_attempts = 3
    /\ tests_failed = 3

C10_RebuildWords ==
    { <<"R","E","B","U","I","L","D">>, <<"C","O","D","E">>, <<"B","U","G">>,
      <<"L","O","G","I","C">>, <<"A","P","I","_","C","H","A","N","G","E">> }
C10_ConfigWords ==
    { <<"C","O","N","F","I","G">>, <<"E","N","V">>, <<"S","E","C","R","E","T">> }

C10_Expected ==
    IF \E w \in C10_RebuildWords : Contains(Upper(diagnosis), w) THEN "rebuild"
    ELSE IF \E w \in C10_ConfigWords : Contains(Upper(diagnosis), w) THEN "config_fix"
    ELSE "retry"

\* C10: Diagnose classifies by keyword with fixed precedence: upper-cased text
\* holding REBUILD, CODE, BUG, LOGIC or API_CHANGE is rebuild, even with
\* config or retry keywords present; else text holding CONFIG, ENV or SECRET
\* is config_fix; everything else is retry.  The machine then runs the node of
\* that action, so text holding API_CHANGE goes to Rebuild, never to Retry.
C10_DiagnosePrecedence ==
    phase \in {"retry", "rebuild", "config_fix"} =>
        /\ heal_action = C10_Expected
        /\ phase = heal_action
        /\ pc = CASE C10_Expected = "rebuild" -> "autolab_rebuild"
                  [] C10_Expected = "config_fix" -> "config_fix"
                  [] OTHER -> "retry"
        /\ Contains(Upper(diagnosis), <<"A","P","I","_","C","H","A","N","G","E">>)
              => pc = "autolab_rebuild"

C10_Witness ==
    /\ phase = "rebuild"
    /\ pc = "autolab_rebuild"
    /\ diagnosis = <<"c","o","n","f","i","g","c","o","d","e">>

\* C18: the step that follows a sandbox test is exactly one of three: to
\* deploy_fix when the test succeeded, to autolab_rebuild when it failed with
\* the attempt counter below 3, to give_up when it failed with the counter at
\* 3 or more; deploy_fix ends the run in phase healed, give_up in phase broken.
C18_AfterSandboxTest ==
    /\ [][pc = "sandbox_test" /\ pc' # pc =>
            \/ sandbox_result'.success /\ pc' = "deploy_fix"
            \/ /\ ~sandbox_result'.success
               /\ heal_attempts < 3
               /\ pc' = "autolab_rebuild"
            \/ /\ ~sandbox_result'.success
               /\ heal_attempts >= 3
               /\ pc' = "give_up"]_vars
    /\ [][pc = "sandbox_test" => heal_attempts' = heal_attempts]_vars
    /\ [][pc = "deploy_fix" /\ pc' # pc => pc' = "END" /\ phase' = "healed"]_vars
    /\ [][pc = "give_up" /\ pc' # pc => pc' = "END" /\ phase' = "broken"]_vars

C18_Witness ==
    /\ pc = "autolab_rebuild"
    /\ phase = "test_failed"
    /\ ~sandbox_result.success
    /\ heal_attempts = 2

-----------------------------------------------------------------------------
(* Adversarial Hearing (graphs/adversarial_hearing.py)                     *)

MaxPasses == 3
MaxPriorEntries == 2
MaxPriorProposals == 3

\* the proposals a Session Record may already hold
PriorProposals ==
    {[i \in 1..n |-> [version |-> i, author |-> "CGO", content |-> "proposal"]] :
        n \in 0..MaxPriorProposals}

L0Verdicts == {"PENDING", "APPROVED", "REJECTED", "REVISE", "AUTO_APPROVED"}

\* the answer of the reasoning oracle to the n-th debate prompt of a run: the
\* text itself is opaque, every answer is a text of its own
Response(n) == <<"response", n>>

\* an entry tagged with its position in the whole transcript
HearingEntryNumbered(r, speaker) ==
    [round |-> Len(meeting_transcript) + 1, speaker |-> speaker,
     content |-> Response(Len(meeting_transcript) + 1)]

\* what CGOAgent.debate, CROAgent.debate, COOAgent.debate and CTOAgent.debate
\* return in a hearing: the round is the constant of the agent's own method
HearingEntry(r, speaker) ==
    [round |-> r, speaker |-> speaker,
     content |-> Response(Len(meeting_transcript) + 1)]

\* the transcript a Session Record may already hold when a hearing is opened
PriorTranscripts ==
    {[i \in 1..n |-> [round |-> 1, speaker |-> "CGO", content |-> <<"prior", i>>]] :
        n \in 0..MaxPriorEntries}

\* a routing that takes every verdict it does not know for an approval
route_l0_verdict_lenient(verdict) ==
    CASE verdict = "REJECTED" -> "rejected"
      [] verdict = "REVISE" -> "round_1_cgo"
      [] OTHER -> "approved"

\* route_l0_verdict and the edge map of build_adversarial_hearing_graph
route_l0_verdict(verdict) ==
    CASE verdict = "APPROVED" -> "approved"
      [] verdict = "REJECTED" -> "rejected"
      [] verdict = "REVISE" -> "round_1_cgo"
      [] OTHER -> "conservative"

HearingInit ==
    /\ pc = "open_hearing"
    /\ phase = "START"
    /\ l0_verdict \in L0Verdicts
    /\ meeting_transcript \in PriorTranscripts
    /\ meeting_type = ""
    /\ proposal_buffer \in PriorProposals
    /\ artifacts = <<>>
    /\ error_log = NoErrorLog
    /\ decision_matrix = DefaultDecisionMatrix
    /\ critique_logs = DefaultCritiqueLogs
    /\ iteration_count = 0
    /\ settings = DefaultSettings
    /\ judged = "none"
    /\ judge_calls = 0
    /\ passes = 0
    /\ HealKeysAbsent
    /\ CallKeysAbsent
    /\ SessionKeysAbsent
    /\ SandboxKeysAbsent
    /\ RouterKeysAbsent
    /\ HolidayKeysAbsent

HearingFrame ==
    /\ UNCHANGED <<proposal_buffer, critique_logs, decision_matrix,
                   iteration_count, settings, judged, judge_calls, error_log,
                   registry, tests_failed>>
    /\ UNCHANGED healKeys
    /\ UNCHANGED <<sandboxKeys, routerKeys, holidayKeys, sessionKeys,
                   fell_back, synthesis, classified, reviewed>>

open_hearing ==
    /\ pc = "open_hearing"
    /\ meeting_type' = "ADVERSARIAL_HEARING"
    /\ phase' = "HEARING_OPENED"
    /\ meeting_transcript' = <<>>
    /\ pc' = "round_1_cgo"
    /\ UNCHANGED <<l0_verdict, artifacts, passes>>
    /\ UNCHANGED debate_input
    /\ HearingFrame

\* CROAgent.debate: the first entry of the transcript tagged round 1, if any
FirstRoundOne(transcript) ==
    LET tagged == {i \in 1..Len(transcript) : transcript[i].round = 1}
    IN  IF tagged = {} THEN <<>>
        ELSE <<transcript[CHOOSE i \in tagged : \A j \in tagged : i <= j]>>

\* the transcript entries the debate prompt of round r holds: CGOAgent.debate
\* holds none, CROAgent.debate the first round-1 entry, COOAgent.debate and
\* CTOAgent.debate every entry of the transcript
DebateInput(r, transcript) ==
    CASE r = 1 -> <<>>
      [] r = 2 -> FirstRoundOne(transcript)
      [] OTHER -> transcript

\* round_1_cgo .. round_4_cto: the role's debate entry is appended
DebateRound(node, r, speaker, next) ==
    /\ pc = node
    /\ debate_input' = DebateInput(r, meeting_transcript)
    /\ meeting_transcript' = Append(meeting_transcript, HearingEntry(r, speaker))
    /\ passes' = IF r = 1 THEN passes + 1 ELSE passes
    /\ pc' = next
    /\ UNCHANGED <<phase, meeting_type, l0_verdict, artifacts>>
    /\ HearingFrame

round_1_cgo == DebateRound("round_1_cgo", 1, "CGO", "round_2_cro")
round_2_cro == DebateRound("round_2_cro", 2, "CRO", "round_3_coo")
round_3_coo == DebateRound("round_3_coo", 3, "COO", "round_4_cto")
round_4_cto == DebateRound("round_4_cto", 4, "CTO", "gm_summarize")

gm_summarize ==
    /\ pc = "gm_summarize"
    /\ phase' = "AWAITING_L0"
    /\ artifacts' = Append(artifacts, "hearing_summary")
    /\ pc' = "l0_decision"
    /\ UNCHANGED <<meeting_type, l0_verdict, meeting_transcript, passes>>
    /\ UNCHANGED debate_input
    /\ HearingFrame

\* l0_decision_node and the conditional edge that follows it; the graph is
\* compiled without an interrupt (main.py:163), so the node runs at once
l0_decision_node ==
    /\ pc = "l0_decision"
    /\ route_l0_verdict(l0_verdict) = "round_1_cgo" => passes < MaxPasses
    /\ phase' = "L0_DECIDED"
    /\ pc' = route_l0_verdict(l0_verdict)
    /\ UNCHANGED <<meeting_type, l0_verdict, meeting_transcript, artifacts,
                   passes>>
    /\ UNCHANGED debate_input
    /\ HearingFrame

Handler(node, ph, verdict) ==
    /\ pc = node
    /\ phase' = ph
    /\ l0_verdict' = verdict
    /\ pc' = "END"
    /\ UNCHANGED <<meeting_type, meeting_transcript, artifacts, passes>>
    /\ UNCHANGED debate_input
    /\ HearingFrame

approved_handler == Handler("approved", "APPROVED_EXECUTING", "APPROVED")
conservative_handler == Handler("conservative", "CONSERVATIVE_EXECUTING", "APPROVED")
rejected_handler == Handler("rejected", "REJECTED_ARCHIVED", "REJECTED")

HearingNext ==
    \/ open_hearing
    \/ round_1_cgo
    \/ round_2_cro
    \/ round_3_coo
    \/ round_4_cto
    \/ gm_summarize
    \/ l0_decision_node
    \/ approved_handler
    \/ conservative_handler
    \/ rejected_handler

SpecHearing == HearingInit /\ [][HearingNext]_vars

C8_Speakers == <<"CGO", "CRO", "COO", "CTO">>

\* C8: every pass of the hearing appends exactly four transcript entries,
\* tagged rounds 1,2,3,4 in that order by the growth, risk, operations and
\* technology roles; a REVISE verdict starts a new pass at round 1 and keeps
\* the earlier entries, so after k passes the transcript holds the 4k entries
\* in append order.
C8_FourRoundsPerPass ==
    /\ [](phase # "START" =>
            \A i \in 1..Len(meeting_transcript) :
               /\ meeting_transcript[i].round = ((i - 1) % 4) + 1
               /\ meeting_transcript[i].speaker = C8_Speakers[((i - 1) % 4) + 1])
    /\ [](pc \in {"gm_summarize", "l0_decision"} =>
            Len(meeting_transcript) = 4 * passes)
    /\ [][phase # "START" =>
            \/ meeting_transcript' = meeting_transcript
            \/ /\ Len(meeting_transcript') = Len(meeting_transcript) + 1
               /\ SubSeq(meeting_transcript', 1, Len(meeting_transcript))
                     = meeting_transcript]_vars
    /\ [][(pc = "l0_decision" /\ l0_verdict = "REVISE") =>
            (pc' = "round_1_cgo" /\ meeting_transcript' = meeting_transcript)]_vars

C8_Witness ==
    /\ pc = "l0_decision"
    /\ l0_verdict = "REVISE"
    /\ passes = 2
    /\ Len(meeting_transcript) = 8
    /\ meeting_transcript[5].round = 1
    /\ meeting_transcript[8].speaker = "CTO"

\* C24: one REVISE verdict causes exactly one more pass of four rounds: a
\* hearing whose record holds the REVISE it was given makes its first pass and
\* one more, and never starts a third on the same stored value.
C24_OnePassPerRevise ==
    /\ l0_verdict = "REVISE" => passes <= 2
    /\ (pc = "round_1_cgo" /\ phase = "L0_DECIDED") => passes <= 1

\* C26: meeting_transcript is append-only: every step of a hearing, the
\* opening included, keeps the entries the record already holds, in place.
C26_TranscriptAppendOnly ==
    [][/\ Len(meeting_transcript') >= Len(meeting_transcript)
       /\ SubSeq(meeting_transcript', 1, Len(meeting_transcript))
             = meeting_transcript]_vars

\* C28: in a pass started by a REVISE verdict, the round-2 prompt holds the
\* round-1 entry of that same pass, which is the entry appended just before
\* the round-2 entry.
C28_RebutsSamePass ==
    (pc = "round_3_coo" /\ passes >= 2) =>
        debate_input = <<meeting_transcript[Len(meeting_transcript) - 1]>>

\* C29: in every pass the round-2 prompt holds round-1 content only, the
\* round-3 prompt content of rounds 1 and 2 only, and the round-4 prompt
\* content of rounds 1 to 3 only.
C29_RestrictedView ==
    /\ pc = "round_3_coo" =>
          \A i \in 1..Len(debate_input) : debate_input[i].round = 1
    /\ pc = "round_4_cto" =>
          \A i \in 1..Len(debate_input) : debate_input[i].round \in {1, 2}
    /\ pc = "gm_summarize" =>
          \A i \in 1..Len(debate_input) : debate_input[i].round \in {1, 2, 3}

\* C13: at the human checkpoint the hearing takes no routing step while
\* l0_verdict is still PENDING.
C13_SuspendsAtCheckpoint ==
    [][(pc = "l0_decision" /\ l0_verdict = "PENDING") => pc' = "l0_decision"]_vars

\* C14: from the checkpoint the hearing goes to the approved handler on
\* APPROVED, to the rejected handler on REJECTED, back to round 1 on REVISE
\* and to the conservative handler on every other verdict, and nowhere else;
\* the approved handler ends the run in phase APPROVED_EXECUTING, the rejected
\* handler in phase REJECTED_ARCHIVED.
C14_RouteOnVerdict ==
    /\ [][pc = "l0_decision" =>
            \/ pc' = "l0_decision"
            \/ l0_verdict = "APPROVED" /\ pc' = "approved"
            \/ l0_verdict = "REJECTED" /\ pc' = "rejected"
            \/ l0_verdict = "REVISE" /\ pc' = "round_1_cgo"
            \/ /\ l0_verdict \notin {"APPROVED", "REJECTED", "REVISE"}
               /\ pc' = "conservative"]_vars
    /\ [][pc = "approved" /\ pc' # pc =>
            pc' = "END" /\ phase' = "APPROVED_EXECUTING"]_vars
    /\ [][pc = "rejected" /\ pc' # pc =>
            pc' = "END" /\ phase' = "REJECTED_ARCHIVED"]_vars
    /\ [][pc = "conservative" /\ pc' # pc =>
            pc' = "END" /\ phase' \notin {"APPROVED_EXECUTING", "REJECTED_ARCHIVED"}]_vars

C14_Witness ==
    /\ pc = "conservative"
    /\ phase = "L0_DECIDED"
    /\ l0_verdict = "AUTO_APPROVED"
    /\ passes = 1

\* C15: no stage of the hearing changes l0_verdict.
C15_VerdictOnlyFromCallback ==
    [][l0_verdict' = l0_verdict]_vars

-----------------------------------------------------------------------------
(* Exploration (graphs/exploration.py)                                     *)

\* the iteration count from which the discussion is concluded by force
ExplorationCap == 5

should_continue_late(n, ph) ==
    IF n > ExplorationCap THEN "draft_proposal"
    ELSE IF ph = "converged" THEN "draft_proposal"
    ELSE "cgo_speak"

\* should_continue and the edge map of build_exploration_graph
should_continue(n, ph) ==
    IF n >= ExplorationCap THEN "draft_proposal"
    ELSE IF ph = "converged" THEN "draft_proposal"
    ELSE "cgo_speak"

ExplorationInit ==
    /\ pc = "cgo_speak"
    /\ phase = "START"
    /\ proposal_buffer \in PriorProposals
    /\ meeting_transcript = <<>>
    /\ meeting_type = ""
    /\ l0_verdict = "PENDING"
    /\ artifacts = <<>>
    /\ error_log = NoErrorLog
    /\ decision_matrix = DefaultDecisionMatrix
    /\ critique_logs = DefaultCritiqueLogs
    /\ iteration_count = 0
    /\ settings = DefaultSettings
    /\ judged = "none"
    /\ judge_calls = 0
    /\ passes = 0
    /\ HealKeysAbsent
    /\ CallKeysAbsent
    /\ SessionKeysAbsent
    /\ SandboxKeysAbsent
    /\ RouterKeysAbsent
    /\ HolidayKeysAbsent

ExplorationFrame ==
    /\ UNCHANGED <<meeting_type, critique_logs, decision_matrix, l0_verdict,
                   artifacts, settings, judged, judge_calls, error_log,
                   registry, tests_failed>>
    /\ UNCHANGED healKeys
    /\ UNCHANGED <<sandboxKeys, routerKeys, holidayKeys, sessionKeys,
                   callKeys>>

\* cgo_speak, cro_challenge, coo_calculate: one entry is appended
Speak(node, speaker, next) ==
    /\ pc = node
    /\ meeting_transcript' = Append(meeting_transcript,
           [round |-> iteration_count + 1, speaker |-> speaker,
            content |-> Response(Len(meeting_transcript) + 1)])
    /\ passes' = IF node = "cgo_speak" THEN passes + 1 ELSE passes
    /\ pc' = next
    /\ UNCHANGED <<phase, proposal_buffer, iteration_count>>
    /\ ExplorationFrame

cgo_speak == Speak("cgo_speak", "CGO", "cro_challenge")
cro_challenge == Speak("cro_challenge", "CRO", "coo_calculate")
coo_calculate == Speak("coo_calculate", "COO", "cto_evaluate")

cto_evaluate ==
    /\ pc = "cto_evaluate"
    /\ meeting_transcript' = Append(meeting_transcript,
           [round |-> iteration_count + 1, speaker |-> "CTO",
            content |-> Response(Len(meeting_transcript) + 1)])
    /\ iteration_count' = iteration_count + 1
    /\ pc' = "gm_moderate"
    /\ UNCHANGED <<phase, proposal_buffer, passes>>
    /\ ExplorationFrame

gm_moderate_deaf ==
    /\ pc = "gm_moderate"
    /\ phase' \in {"converged", "continue"}
    /\ pc' = should_continue(iteration_count, "continue")
    /\ UNCHANGED <<proposal_buffer, meeting_transcript, iteration_count, passes>>
    /\ ExplorationFrame

\* gm_moderate and the conditional edge that follows it
gm_moderate ==
    /\ pc = "gm_moderate"
    /\ phase' \in {"converged", "continue"}
    /\ pc' = should_continue(iteration_count, phase')
    /\ UNCHANGED <<proposal_buffer, meeting_transcript, iteration_count, passes>>
    /\ ExplorationFrame

draft_proposal ==
    /\ pc = "draft_proposal"
    /\ proposal_buffer' = Append(proposal_buffer,
           [version |-> Len(proposal_buffer) + 1,
            author |-> "GM (Exploration Synthesis)", content |-> "summary"])
    /\ phase' = "PROPOSAL_READY"
    /\ pc' = "END"
    /\ UNCHANGED <<meeting_transcript, iteration_count, passes>>
    /\ ExplorationFrame

ExplorationNext ==
    \/ cgo_speak
    \/ cro_challenge
    \/ coo_calculate
    \/ cto_evaluate
    \/ gm_moderate
    \/ draft_proposal

SpecExploration == ExplorationInit /\ [][ExplorationNext]_vars

\* every node of the graph returns, and the runtime then runs the next node
SpecExplorationFair == SpecExploration /\ WF_vars(ExplorationNext)

-----------------------------------------------------------------------------
(* Specification SpecSandbox: one call of SandboxExecutor._run_command     *)
(* (platforms/tech_lab/sandbox.py).  The coroutine, the child process and  *)
(* the event loop that notices the child's exit are separate actors: the   *)
(* child may exit at any moment, and the loop runs whenever the coroutine  *)
(* is suspended, which includes the time wait_for spends cancelling        *)
(* communicate() after the timer has fired.                                *)

MaxTimeout == 3

\* exit statuses of a child that ends by itself
ReturnCodes == {0, 1, 2}

\* lines 119-125: the result of the except asyncio.TimeoutError branch
TimeoutResult == [kind |-> "run", success |-> FALSE, exit_code |-> -1]

\* lines 138-144: the result of the except Exception branch
SandboxError == [kind |-> "run", success |-> FALSE, exit_code |-> -2]

\* lines 129-135: the result of a command that ended within the timeout
CompletedResult(returncode) ==
    [kind |-> "run", success |-> (returncode = 0), exit_code |-> returncode]

SandboxInit ==
    /\ pc = "create_subprocess_exec"
    /\ timeout \in 1..MaxTimeout
    /\ proc = NoProcess
    /\ elapsed = 0
    /\ timed_out = FALSE
    /\ phase = "INIT"
    /\ decision_matrix = DefaultDecisionMatrix
    /\ critique_logs = DefaultCritiqueLogs
    /\ iteration_count = 0
    /\ settings = DefaultSettings
    /\ judged = "none"
    /\ judge_calls = 0
    /\ passes = 0
    /\ RecordDefaults
    /\ HealKeysAbsent
    /\ CallKeysAbsent
    /\ SessionKeysAbsent
    /\ RouterKeysAbsent
    /\ HolidayKeysAbsent

SandboxFrame ==
    /\ UNCHANGED record
    /\ UNCHANGED <<settings, judged, judge_calls, passes, registry,
                   tests_failed, diagnosis, heal_action, heal_attempts,
                   fixed_code, test_code, timeout, routerKeys, holidayKeys,
                sessionKeys, callKeys>>

\* lines 104-109: the child is spawned, or the spawn raises and the outer
\* except Exception returns the sandbox error
create_subprocess_exec ==
    /\ pc = "create_subprocess_exec"
    /\ \/ /\ proc' = [state |-> "running", returncode |-> 0]
          /\ pc' = "communicate"
          /\ UNCHANGED sandbox_result
       \/ /\ pc' = "END"
          /\ sandbox_result' = SandboxError
          /\ UNCHANGED proc
    /\ UNCHANGED <<elapsed, timed_out>>
    /\ SandboxFrame

\* the child ends by itself
child_exits ==
    /\ pc \in {"communicate", "proc_kill"}
    /\ proc.state = "running"
    /\ \E rc \in ReturnCodes : proc' = [state |-> "exited", returncode |-> rc]
    /\ UNCHANGED <<pc, sandbox_result, elapsed, timed_out>>
    /\ SandboxFrame

\* the event loop handles the child's exit while the coroutine is suspended:
\* the exit status is collected and the transport gives up the process
loop_reaps ==
    /\ pc \in {"communicate", "proc_kill", "proc_wait"}
    /\ proc.state = "exited"
    /\ proc' = [proc EXCEPT !.state = "reaped"]
    /\ UNCHANGED <<pc, sandbox_result, elapsed, timed_out>>
    /\ SandboxFrame

\* a second passes while communicate() is pending
tick ==
    /\ pc = "communicate"
    /\ elapsed < timeout
    /\ elapsed' = elapsed + 1
    /\ UNCHANGED <<pc, proc, sandbox_result, timed_out>>
    /\ SandboxFrame

\* lines 112-115 and 127-135: communicate() returns
communicate_returns ==
    /\ pc = "communicate"
    /\ proc.state = "reaped"
    /\ sandbox_result' = CompletedResult(proc.returncode)
    /\ pc' = "END"
    /\ UNCHANGED <<proc, elapsed, timed_out>>
    /\ SandboxFrame

\* lines 112-116: the timer of wait_for fires, communicate() is cancelled
\* and asyncio.TimeoutError reaches the except clause
timeout_fires ==
    /\ pc = "communicate"
    /\ elapsed = timeout
    /\ proc.state \in {"running", "exited"}
    /\ timed_out' = TRUE
    /\ pc' = "proc_kill"
    /\ UNCHANGED <<proc, sandbox_result, elapsed>>
    /\ SandboxFrame

\* line 117: proc.kill().  A transport that has given up its process raises
\* ProcessLookupError, which the outer except Exception (line 137) answers.
proc_kill ==
    /\ pc = "proc_kill"
    /\ \/ /\ proc.state = "running"
          /\ proc' = [state |-> "exited", returncode |-> -9]
          /\ pc' = "proc_wait"
          /\ UNCHANGED sandbox_result
       \/ /\ proc.state = "exited"
          /\ pc' = "proc_wait"
          /\ UNCHANGED <<proc, sandbox_result>>
       \/ /\ proc.state = "reaped"
          /\ sandbox_result' = SandboxError
          /\ pc' = "END"
          /\ UNCHANGED proc
    /\ UNCHANGED <<elapsed, timed_out>>
    /\ SandboxFrame

\* lines 118-125: await proc.wait(), then the timeout result is returned
proc_wait ==
    /\ pc = "proc_wait"
    /\ proc.state = "reaped"
    /\ sandbox_result' = TimeoutResult
    /\ pc' = "END"
    /\ UNCHANGED <<proc, elapsed, timed_out>>
    /\ SandboxFrame

SandboxNext ==
    \/ create_subprocess_exec
    \/ child_exits
    \/ loop_reaps
    \/ tick
    \/ communicate_returns
    \/ timeout_fires
    \/ proc_kill
    \/ proc_wait

SpecSandbox == SandboxInit /\ [][SandboxNext]_vars

\* C11: a call whose timeout fired returns a structured result with
\* success = false and exit_code = -1, and the child has been killed and
\* waited for when it returns.
C11_TimeoutResult ==
    (pc = "END" /\ timed_out) =>
        /\ sandbox_result.kind = "run"
        /\ ~sandbox_result.success
        /\ sandbox_result.exit_code = -1
        /\ proc.state = "reaped"

-----------------------------------------------------------------------------
(* Specification SpecRouter: the Main Router (graphs/main_router.py) and   *)
(* GMAgent.route_mode (agents/l1_gm.py).  parse_intent does not write      *)
(* intent_category, so the category the routing reads is the one the       *)
(* caller's record holds.                                                  *)

\* the categories of core/state.py and core/scheduler.py, the empty default
\* and a spelling route_mode does not know
IntentCategories ==
    {"", "NEW_CATEGORY", "COMPLEX_STRATEGY", "TECH_FIX", "PRODUCT_LAUNCH",
     "SOURCING", "EVOLUTION", "tech_fix"}

Modes == {"EXPLORATION", "EXECUTION"}

MeetingTypes == {"", "ASYNC_JOINT", "ADVERSARIAL_HEARING", "EXPLORATION_CHAT"}

\* the categories GMAgent.parse_intent asks the oracle to choose from
ClassifierAnswers ==
    {"NEW_CATEGORY", "PRODUCT_LAUNCH", "SOURCING", "TECH_FIX", "COMPLEX_STRATEGY"}

\* a routing without the self-heal branch
route_mode_no_heal(category) ==
    IF category \in {"NEW_CATEGORY", "COMPLEX_STRATEGY"} THEN "exploration"
    ELSE "execution"

\* GMAgent.route_mode
route_mode(category) ==
    IF category \in {"NEW_CATEGORY", "COMPLEX_STRATEGY"} THEN "exploration"
    ELSE IF category = "TECH_FIX" THEN "self_heal"
    ELSE "execution"

\* route_to_mode and the edge map of build_main_router
route_to_mode(category) ==
    CASE route_mode(category) = "exploration" -> "exploration_entry"
      [] route_mode(category) = "execution" -> "execution_entry"
      [] route_mode(category) = "self_heal" -> "self_heal_entry"

RouterInit ==
    /\ pc = "parse_intent"
    /\ phase \in {"INIT", "START"}
    /\ intent_category \in IntentCategories
    /\ mode \in Modes
    /\ meeting_type \in MeetingTypes
    /\ entered = <<>>
    /\ proposal_buffer = <<>>
    /\ l0_verdict = "PENDING"
    /\ meeting_transcript = <<>>
    /\ artifacts = <<>>
    /\ error_log = NoErrorLog
    /\ decision_matrix = DefaultDecisionMatrix
    /\ critique_logs = DefaultCritiqueLogs
    /\ iteration_count = 0
    /\ settings = DefaultSettings
    /\ judged = "none"
    /\ judge_calls = 0
    /\ passes = 0
    /\ HealKeysAbsent
    /\ CallKeysAbsent
    /\ SessionKeysAbsent
    /\ SandboxKeysAbsent
    /\ HolidayKeysAbsent

RouterFrame ==
    /\ UNCHANGED <<proposal_buffer, critique_logs, decision_matrix, l0_verdict,
                   meeting_transcript, iteration_count, artifacts, error_log,
                   settings, judged, judge_calls, passes, registry,
                   tests_failed, intent_category>>
    /\ UNCHANGED healKeys
    /\ UNCHANGED <<sandboxKeys, holidayKeys, sessionKeys, fell_back, synthesis,
                   debate_input, reviewed>>

\* parse_intent and the conditional edge that follows it
parse_intent ==
    /\ pc = "parse_intent"
    /\ \E category \in ClassifierAnswers : classified' = category
    /\ phase' = "INTENT_PARSED"
    /\ pc' = route_to_mode(intent_category)
    /\ UNCHANGED <<meeting_type, mode, entered>>
    /\ RouterFrame

\* exploration_entry, execution_entry, self_heal_entry
Entry(node, m, mt, ph) ==
    /\ pc = node
    /\ mode' = m
    /\ meeting_type' = mt
    /\ phase' = ph
    /\ entered' = Append(entered, node)
    /\ pc' = "END"
    /\ UNCHANGED classified
    /\ RouterFrame

exploration_entry ==
    Entry("exploration_entry", "EXPLORATION", "EXPLORATION_CHAT", "EXPLORING")
execution_entry ==
    Entry("execution_entry", "EXECUTION", "ASYNC_JOINT", "EXECUTING")
self_heal_entry ==
    Entry("self_heal_entry", "EXECUTION", "SELF_HEAL", "DIAGNOSING")

RouterNext ==
    \/ parse_intent
    \/ exploration_entry
    \/ execution_entry
    \/ self_heal_entry

SpecRouter == RouterInit /\ [][RouterNext]_vars

\* the entry stage the routing table of the claim gives a category
C16_Expected ==
    CASE intent_category \in {"NEW_CATEGORY", "COMPLEX_STRATEGY"} -> "exploration_entry"
      [] intent_category = "TECH_FIX" -> "self_heal_entry"
      [] OTHER -> "execution_entry"

\* C25: after the classification stage intent_category holds the category the
\* classification call answered with, and the routing step has used it: a
\* request classified TECH_FIX is handed to self_heal_entry.
C25_CategoryFromClassification ==
    classified # "" =>
        /\ intent_category = classified
        /\ (classified = "TECH_FIX" /\ pc # "END" => pc = "self_heal_entry")
        /\ (classified = "TECH_FIX" /\ pc = "END" => entered = <<"self_heal_entry">>)

\* C16: the router goes from parse_intent to the entry stage that the
\* category alone determines (NEW_CATEGORY and COMPLEX_STRATEGY: Exploration;
\* TECH_FIX: SelfHeal; anything else, the empty string included: the Async
\* Joint Session), and a finished request has run exactly that one entry stage.
C16_RoutingTable ==
    /\ [][pc = "parse_intent" /\ pc' # pc => pc' = C16_Expected]_vars
    /\ [][intent_category' = intent_category]_vars
    /\ [](Len(entered) <= 1)
    /\ [](pc = "END" => entered = <<C16_Expected>>)
    /\ [](pc = "END" =>
            meeting_type = CASE C16_Expected = "exploration_entry" -> "EXPLORATION_CHAT"
                             [] C16_Expected = "self_heal_entry" -> "SELF_HEAL"
                             [] OTHER -> "ASYNC_JOINT")

C16_Witness ==
    /\ pc = "END"
    /\ intent_category = ""
    /\ entered = <<"execution_entry">>
    /\ meeting_type = "ASYNC_JOINT"

-----------------------------------------------------------------------------
(* Specification SpecMachines: a run of any one of the Deliberation        *)
(* machines (Async Joint Session, Adversarial Hearing, Exploration) or of  *)
(* the Self-Healing machine.  The node names of the four graphs are        *)
(* disjoint, so a run stays inside the graph it started in.                *)

MachinesInit == AsyncInit \/ HearingInit \/ ExplorationInit \/ HealInit

MachinesNext == AsyncNext \/ HearingNext \/ ExplorationNext \/ HealNext

SpecMachines == MachinesInit /\ [][MachinesNext]_vars

\* the terminal values of phase that the record's lifecycle lists
C17_ListedTerminals ==
    {"APPROVED_EXECUTING", "REJECTED_ARCHIVED", "healed", "broken", "needs_human"}

\* the values of phase that the last node of some machine writes
C17_Terminals ==
    C17_ListedTerminals \cup
        {"EXECUTION", "ESCALATED", "CONSERVATIVE_EXECUTING", "PROPOSAL_READY"}

\* C17 as stated: a run that has ended has phase in {APPROVED_EXECUTING,
\* REJECTED_ARCHIVED, healed, broken, needs_human}.
C17_Original == pc = "END" => phase \in C17_ListedTerminals

\* C17: a run that has ended has phase in the listed set or in {EXECUTION,
\* ESCALATED, CONSERVATIVE_EXECUTING, PROPOSAL_READY}; phase takes one of
\* these values only with the last node of the run, and from then on no
\* stage runs and nothing of the record changes.
C17_ClosedTerminalSet ==
    /\ [](pc = "END" <=> phase \in C17_Terminals)
    /\ [][(phase \in C17_Terminals) => UNCHANGED vars]_vars

C17_Witness ==
    /\ pc = "END"
    /\ phase = "EXECUTION"
    /\ l0_verdict = "AUTO_APPROVED"

\* C32: proposal_buffer is append-only and an entry's version is its position:
\* every Propose stage and Exploration's DraftProposal appends exactly one
\* entry whose version is its 1-based position, and no step of any machine
\* removes, reorders or rewrites an entry.
C32_ProposalsAppendOnly ==
    /\ [](\A i \in 1..Len(proposal_buffer) : proposal_buffer[i].version = i)
    /\ [][\/ proposal_buffer' = proposal_buffer
          \/ /\ pc \in {"cgo_propose", "draft_proposal"}
             /\ Len(proposal_buffer') = Len(proposal_buffer) + 1
             /\ SubSeq(proposal_buffer', 1, Len(proposal_buffer)) = proposal_buffer
             /\ proposal_buffer'[Len(proposal_buffer')].version
                   = Len(proposal_buffer')]_vars
    /\ [][(pc \in {"cgo_propose", "draft_proposal"} /\ pc' # pc) =>
             Len(proposal_buffer') = Len(proposal_buffer) + 1]_vars

C32_Witness ==
    /\ pc = "cgo_propose"
    /\ phase = "REVISING"
    /\ iteration_count = 2
    /\ Len(proposal_buffer) = 2
    /\ proposal_buffer[2].version = 2

-----------------------------------------------------------------------------
(* Specification SpecHoliday: the free discussion (graphs/holiday_chat.py) *)
(* as POST /api/holiday starts it (main.py).  Of the transcript the model  *)
(* keeps what the nodes read of it: the number of entries of each role     *)
(* (speak_counts) and the last entry's role and pass flag (last_entry).    *)
(* A Chinese character of a phrase is written as one element of the text,  *)
(* named by its reading.                                                   *)

DefaultMaxTurns == 15
ConsecutivePassCap == 3
ApiDefaultMaxRounds == 10

\* HolidayRequest.max_rounds: a small value and the default
MaxRoundsInputs == {3, ApiDefaultMaxRounds}

\* the phrase list of agent_speak
PassPhrases ==
    { <<"mei", "shen", "me", "bu", "chong">>,
      <<"mei", "shen", "me", "yao", "shuo">>,
      <<"tong", "yi">>,
      <<"p", "a", "s", "s">>,
      <<"wo", "xian", "ting", "zhe">>,
      <<"bu", "bu", "chong", "le">>,
      <<"zan", "shi", "mei", "you">> }

\* what a role may say in a turn
HolidayTexts ==
    { <<"h", "i">>,
      <<"P", "A", "S", "S">>,
      <<"b", "y", "p", "a", "s", "s">>,
      <<"wo", "bu", "tong", "yi">> }

\* is_pass = any(phrase in content for phrase in [...])
IsPass(content) == ContainsAny(content, PassPhrases)

\* what response.content.strip().lower() of the speaker-choice call may be:
\* a role, nobody, or something else
OracleChoices == HolidayRoles \cup {"nobody", "director"}

\* pick_next_speaker's fallback: the roles with the fewest entries, without
\* the role of the last entry unless that leaves nobody
LeastSpoken ==
    {r \in HolidayRoles : \A q \in HolidayRoles : speak_counts[r] <= speak_counts[q]}

FallbackCandidates ==
    IF LeastSpoken \ {last_entry.role} # {} THEN LeastSpoken \ {last_entry.role}
    ELSE LeastSpoken

\* max_turns = state.get("max_turns", 15)
MaxTurnsOf == IF max_turns.set THEN max_turns.value ELSE DefaultMaxTurns

\* a continuation test that ends only after more than three passes
holiday_should_continue_lax(speaker, cp, turns, cap) ==
    IF speaker = "nobody" THEN "end_holiday"
    ELSE IF cp > ConsecutivePassCap THEN "end_holiday"
    ELSE IF turns >= cap THEN "end_holiday"
    ELSE "pick_next_speaker"

\* should_continue of holiday_chat.py and the edge map after agent_speak
holiday_should_continue(speaker, cp, turns, cap) ==
    IF speaker = "nobody" THEN "end_holiday"
    ELSE IF cp >= ConsecutivePassCap THEN "end_holiday"
    ELSE IF turns >= cap THEN "end_holiday"
    ELSE "pick_next_speaker"

HolidayInit ==
    /\ pc = "start_holiday"
    /\ phase = "INIT"
    /\ max_rounds \in {[set |-> TRUE, value |-> v] : v \in MaxRoundsInputs}
    /\ max_turns = NoMaxTurns
    /\ turn_count = 0
    /\ consecutive_passes = 0
    /\ next_speaker = ""
    /\ speak_counts = [r \in HolidayRoles |-> 0]
    /\ last_entry = SystemEntry
    /\ decision_matrix = DefaultDecisionMatrix
    /\ critique_logs = DefaultCritiqueLogs
    /\ iteration_count = 0
    /\ settings = DefaultSettings
    /\ judged = "none"
    /\ judge_calls = 0
    /\ passes = 0
    /\ RecordDefaults
    /\ HealKeysAbsent
    /\ CallKeysAbsent
    /\ SessionKeysAbsent
    /\ SandboxKeysAbsent
    /\ RouterKeysAbsent

HolidayFrame ==
    /\ UNCHANGED <<meeting_type, proposal_buffer, critique_logs,
                   decision_matrix, l0_verdict, meeting_transcript,
                   iteration_count, artifacts, error_log, settings, judged,
                   judge_calls, passes, registry, tests_failed, max_turns,
                   max_rounds>>
    /\ UNCHANGED healKeys
    /\ UNCHANGED <<sandboxKeys, routerKeys, sessionKeys, synthesis, classified,
                   debate_input, reviewed>>

start_holiday ==
    /\ pc = "start_holiday"
    /\ speak_counts' = [r \in HolidayRoles |-> 0]
    /\ last_entry' = SystemEntry
    /\ turn_count' = 0
    /\ consecutive_passes' = 0
    /\ phase' = "chatting"
    /\ pc' = "pick_next_speaker"
    /\ UNCHANGED next_speaker
    /\ UNCHANGED fell_back
    /\ HolidayFrame

pick_next_speaker ==
    /\ pc = "pick_next_speaker"
    /\ \E chosen \in OracleChoices :
          IF chosen \in HolidayRoles \cup {"nobody"}
          THEN next_speaker' = chosen /\ fell_back' = FALSE
          ELSE next_speaker' \in FallbackCandidates /\ fell_back' = TRUE
    /\ pc' = "agent_speak"
    /\ UNCHANGED <<phase, turn_count, consecutive_passes, speak_counts,
                   last_entry>>
    /\ HolidayFrame

\* agent_speak and the conditional edge that follows it
agent_speak ==
    /\ pc = "agent_speak"
    /\ \/ /\ next_speaker = "nobody" \/ next_speaker \notin HolidayRoles
          /\ consecutive_passes' = consecutive_passes + 1
          /\ UNCHANGED <<turn_count, speak_counts, last_entry>>
       \/ /\ next_speaker \in HolidayRoles
          /\ \E content \in HolidayTexts :
                /\ last_entry' = [role |-> next_speaker, is_pass |-> IsPass(content)]
                /\ consecutive_passes' =
                      IF IsPass(content) THEN consecutive_passes + 1 ELSE 0
          /\ speak_counts' =
                [speak_counts EXCEPT ![next_speaker] = speak_counts[next_speaker] + 1]
          /\ turn_count' = turn_count + 1
    /\ pc' = holiday_should_continue(next_speaker, consecutive_passes',
                                     turn_count', MaxTurnsOf)
    /\ fell_back' = FALSE
    /\ UNCHANGED <<phase, next_speaker>>
    /\ HolidayFrame

end_holiday ==
    /\ pc = "end_holiday"
    /\ last_entry' = SystemEntry
    /\ phase' = "holiday_ended"
    /\ pc' = "END"
    /\ UNCHANGED <<turn_count, consecutive_passes, next_speaker, speak_counts>>
    /\ UNCHANGED fell_back
    /\ HolidayFrame

HolidayNext ==
    \/ start_holiday
    \/ pick_next_speaker
    \/ agent_speak
    \/ end_holiday

SpecHoliday == HolidayInit /\ [][HolidayNext]_vars

\* C27: a speaker chosen by the fallback is a role, and never the role of the
\* last transcript entry.
C27_FallbackAvoidsLast ==
    (pc = "agent_speak" /\ fell_back) =>
        /\ next_speaker \in HolidayRoles
        /\ next_speaker # last_entry.role

\* C19: after a turn the session goes on to another speaker selection exactly
\* when the chosen speaker was not nobody, fewer than 3 consecutive passes
\* have occurred and turn_count is below the maximum turn count, and
\* otherwise to the end stage; a pass turn adds one to the consecutive-pass
\* count and a non-pass turn resets it to 0.
C19_ContinueOnlyIf ==
    /\ [][pc = "agent_speak" /\ pc' # pc =>
            /\ pc' \in {"pick_next_speaker", "end_holiday"}
            /\ pc' = "pick_next_speaker" <=>
                  /\ next_speaker # "nobody"
                  /\ consecutive_passes' < 3
                  /\ turn_count' < MaxTurnsOf]_vars
    /\ [][turn_count' = turn_count + 1 =>
            consecutive_passes' =
               IF last_entry'.is_pass THEN consecutive_passes + 1 ELSE 0]_vars

C19_Witness ==
    /\ pc = "end_holiday"
    /\ next_speaker = "cto"
    /\ consecutive_passes = 3
    /\ turn_count = 5

\* C20: a session started with max_rounds = M ends after at most M turns.
C20_TurnCap == max_rounds.set => turn_count <= max_rounds.value

-----------------------------------------------------------------------------
(* Specification SpecSessions: two runs of the Self-Healing graph in one   *)
(* process (two POST /api/self-heal requests on one event loop).  Both     *)
(* runs call the module-level object cto of graphs/self_heal.py, whose     *)
(* personal memory keeps its thoughts in the list agent:cto:scratchpad; a  *)
(* run gives way to the other at every await.  A thought is recorded by    *)
(* the run that wrote it; the other keys of the state dict play no part.   *)

Sessions == {1, 2}

\* build_memory_context: thoughts[-3:] of get_thoughts(limit=5)
ThoughtsShown == 3

\* the last n elements of a sequence
LastN(seq, n) ==
    IF Len(seq) <= n THEN seq ELSE SubSeq(seq, Len(seq) - n + 1, Len(seq))

\* PersonalMemory.think: rpush on the agent's list; only the entries that
\* build_memory_context can still show are kept
Think(pad, s) == LastN(Append(pad, s), ThoughtsShown)

\* the runs whose thoughts _llm_think puts into the system prompt
ThoughtAuthors(pad) == {pad[i] : i \in 1..Len(pad)}

SessionsInit ==
    /\ pc = "sessions"
    /\ phase = "INIT"
    /\ session_pc = [s \in Sessions |-> "error_trap"]
    /\ session_attempts = [s \in Sessions |-> 0]
    /\ session_fixed_code = [s \in Sessions |-> ""]
    /\ scratchpad = <<>>
    /\ prompt_sources = [s \in Sessions |-> {}]
    /\ decision_matrix = DefaultDecisionMatrix
    /\ critique_logs = DefaultCritiqueLogs
    /\ iteration_count = 0
    /\ settings = DefaultSettings
    /\ judged = "none"
    /\ judge_calls = 0
    /\ passes = 0
    /\ RecordDefaults
    /\ HealKeysAbsent
    /\ CallKeysAbsent
    /\ SandboxKeysAbsent
    /\ RouterKeysAbsent
    /\ HolidayKeysAbsent

SessionsFrame ==
    /\ UNCHANGED record
    /\ UNCHANGED <<pc, settings, judged, judge_calls, passes, registry,
                   tests_failed>>
    /\ UNCHANGED healKeys
    /\ UNCHANGED <<sandboxKeys, routerKeys, holidayKeys, callKeys>>

\* error_trap of run s
session_error_trap(s) ==
    /\ session_pc[s] = "error_trap"
    /\ session_attempts' = [session_attempts EXCEPT ![s] = 0]
    /\ session_pc' = [session_pc EXCEPT ![s] = "cto_diagnose"]
    /\ UNCHANGED <<session_fixed_code, scratchpad, prompt_sources>>
    /\ SessionsFrame

\* cto_diagnose of run s up to the oracle call: cto.diagnose_error builds the
\* system prompt from the thoughts on the scratchpad
session_diagnose_error(s) ==
    /\ session_pc[s] = "cto_diagnose"
    /\ prompt_sources' =
          [prompt_sources EXCEPT ![s] = prompt_sources[s] \cup ThoughtAuthors(scratchpad)]
    /\ session_pc' = [session_pc EXCEPT ![s] = "cto_diagnose_think"]
    /\ UNCHANGED <<session_attempts, session_fixed_code, scratchpad>>
    /\ SessionsFrame

\* the rest of cto_diagnose: the action is read off the diagnosis, the
\* diagnosis is written to the scratchpad, route_diagnosis picks the branch
session_cto_diagnose(s) ==
    /\ session_pc[s] = "cto_diagnose_think"
    /\ scratchpad' = Think(scratchpad, s)
    /\ \E text \in DiagnosisTexts :
          session_pc' = [session_pc EXCEPT ![s] = route_diagnosis(Classify(text))]
    /\ UNCHANGED <<session_attempts, session_fixed_code, prompt_sources>>
    /\ SessionsFrame

session_retry_action(s) ==
    /\ session_pc[s] = "retry"
    /\ session_attempts' = [session_attempts EXCEPT ![s] = session_attempts[s] + 1]
    /\ session_pc' = [session_pc EXCEPT ![s] = "sandbox_test"]
    /\ UNCHANGED <<session_fixed_code, scratchpad, prompt_sources>>
    /\ SessionsFrame

session_autolab_rebuild(s) ==
    /\ session_pc[s] = "autolab_rebuild"
    /\ \E code \in FixCodes :
          session_fixed_code' = [session_fixed_code EXCEPT ![s] = code]
    /\ session_attempts' = [session_attempts EXCEPT ![s] = session_attempts[s] + 1]
    /\ session_pc' = [session_pc EXCEPT ![s] = "sandbox_test"]
    /\ UNCHANGED <<scratchpad, prompt_sources>>
    /\ SessionsFrame

session_config_fix(s) ==
    /\ session_pc[s] = "config_fix"
    /\ scratchpad' = Think(scratchpad, s)
    /\ session_pc' = [session_pc EXCEPT ![s] = "END"]
    /\ UNCHANGED <<session_attempts, session_fixed_code, prompt_sources>>
    /\ SessionsFrame

\* sandbox_test of run s: only a run of the sandbox is written down as a
\* thought (line 165)
session_sandbox_test(s) ==
    /\ session_pc[s] = "sandbox_test"
    /\ \/ /\ session_fixed_code[s] = ""
          /\ session_pc' = [session_pc EXCEPT ![s] =
                route_test_result("test_passed", session_attempts[s])]
          /\ UNCHANGED scratchpad
       \/ /\ session_fixed_code[s] = "malformed"
          /\ session_pc' = [session_pc EXCEPT ![s] =
                route_test_result("test_failed", session_attempts[s])]
          /\ UNCHANGED scratchpad
       \/ /\ session_fixed_code[s] = "wellformed"
          /\ \E result \in RunOutcomes :
                session_pc' = [session_pc EXCEPT ![s] =
                   route_test_result(IF result.success THEN "test_passed"
                                     ELSE "test_failed", session_attempts[s])]
          /\ scratchpad' = Think(scratchpad, s)
    /\ UNCHANGED <<session_attempts, session_fixed_code, prompt_sources>>
    /\ SessionsFrame

\* deploy_fix and give_up of run s: both write a thought and end the run
session_deploy_fix(s) ==
    /\ session_pc[s] = "deploy_fix"
    /\ scratchpad' = Think(scratchpad, s)
    /\ session_pc' = [session_pc EXCEPT ![s] = "END"]
    /\ UNCHANGED <<session_attempts, session_fixed_code, prompt_sources>>
    /\ SessionsFrame

session_give_up(s) ==
    /\ session_pc[s] = "give_up"
    /\ scratchpad' = Think(scratchpad, s)
    /\ session_pc' = [session_pc EXCEPT ![s] = "END"]
    /\ UNCHANGED <<session_attempts, session_fixed_code, prompt_sources>>
    /\ SessionsFrame

SessionsNext ==
    \E s \in Sessions :
        \/ session_error_trap(s)
        \/ session_diagnose_error(s)
        \/ session_cto_diagnose(s)
        \/ session_retry_action(s)
        \/ session_autolab_rebuild(s)
        \/ session_config_fix(s)
        \/ session_sandbox_test(s)
        \/ session_deploy_fix(s)
        \/ session_give_up(s)

SpecSessions == SessionsInit /\ [][SessionsNext]_vars

\* C21: of two runs processed concurrently, neither reads state written by
\* the other: the prompts of a run hold no thought that the other run wrote.
C21_NoCrossSessionRead ==
    \A s \in Sessions : prompt_sources[s] \subseteq {s}

-----------------------------------------------------------------------------
(* Self-Healing: termination, the attempt counter, the syntax check and    *)
(* the configuration path                                                  *)

\* every node of the graph returns, and the runtime then runs the next node
SpecHealFair == SpecHeal /\ WF_vars(HealNext)

\* C34: every Self-Healing run ends, in one of the phases healed, broken or
\* needs_human, and no run makes more than 3 Rebuild passes: a Rebuild pass
\* starts only while the attempt counter is below 3 and adds 1 to it.
C34_HealTerminates ==
    /\ <>(pc = "END" /\ phase \in {"healed", "broken", "needs_human"})
    /\ [](pc = "END" => phase \in {"healed", "broken", "needs_human"})
    /\ [](heal_attempts <= HealAttemptCap /\ tests_failed <= HealAttemptCap)
    /\ [][(pc = "autolab_rebuild" /\ pc' # pc) =>
            /\ heal_attempts < HealAttemptCap
            /\ heal_attempts' = heal_attempts + 1]_vars
    /\ [][(pc = "END") => pc' = "END"]_vars

C34_Witness ==
    /\ pc = "END"
    /\ phase = "broken"
    /\ heal_action = "rebuild"
    /\ heal_attempts = 3
    /\ tests_failed = 3

\* C35: the attempt counter is 0 when Trap has run, every Retry and every
\* Rebuild pass adds exactly 1 to it and no other stage changes it; a run
\* diagnosed as retry makes one Retry pass, passes SandboxTest without any
\* generated code and ends healed with the counter at 1.
C35_AttemptCounter ==
    /\ [][(pc = "error_trap" /\ pc' # pc) => heal_attempts' = 0]_vars
    /\ [][(pc \in {"retry", "autolab_rebuild"} /\ pc' # pc) =>
            heal_attempts' = heal_attempts + 1]_vars
    /\ [][(heal_attempts' # heal_attempts) =>
            pc \in {"error_trap", "retry", "autolab_rebuild"}]_vars
    /\ [][(pc = "cto_diagnose" /\ heal_action' = "retry" /\ pc' # pc) =>
            pc' = "retry"]_vars
    /\ [][(pc = "retry" /\ pc' # pc) =>
            pc' = "sandbox_test" /\ fixed_code' = ""]_vars
    /\ []((heal_action = "retry" /\ pc \in {"deploy_fix", "END"}) =>
            /\ heal_attempts = 1
            /\ fixed_code = ""
            /\ sandbox_result.kind = "trivial"
            /\ sandbox_result.success)
    /\ []((heal_action = "retry" /\ pc = "END") => phase = "healed")

C35_Witness ==
    /\ pc = "END"
    /\ phase = "healed"
    /\ heal_action = "retry"
    /\ heal_attempts = 1
    /\ sandbox_result.kind = "trivial"

\* C38: SandboxTest executes the generated code only after a passed syntax
\* check: code that does not compile is never run, its result is a failure
\* that comes from the check, and a result that comes from a run is a result
\* for code that compiles.
C38_SyntaxCheckFirst ==
    /\ [][(pc = "sandbox_test" /\ fixed_code = "malformed" /\ pc' # pc) =>
            /\ sandbox_result'.kind = "syntax"
            /\ ~sandbox_result'.success
            /\ phase' = "test_failed"]_vars
    /\ [][(pc = "sandbox_test" /\ pc' # pc /\ sandbox_result'.kind = "run") =>
            fixed_code = "wellformed"]_vars
    /\ [](sandbox_result.kind = "syntax" => ~sandbox_result.success)

C38_Witness ==
    /\ pc = "autolab_rebuild"
    /\ phase = "test_failed"
    /\ fixed_code = "malformed"
    /\ test_code = "test"
    /\ sandbox_result.kind = "syntax"

\* C39: a run diagnosed as config_fix goes from the diagnosis to ConfigFix
\* and from there to the end in phase needs_human; no other stage runs, the
\* attempt counter stays 0 and the tool's registry status stays as it was.
C39_ConfigFixDirect ==
    /\ [][(pc = "cto_diagnose" /\ heal_action' = "config_fix" /\ pc' # pc) =>
            pc' = "config_fix"]_vars
    /\ [][(pc = "config_fix" /\ pc' # pc) =>
            /\ pc' = "END"
            /\ phase' = "needs_human"
            /\ heal_attempts' = heal_attempts
            /\ registry' = registry]_vars
    /\ []((heal_action = "config_fix") =>
            /\ pc \in {"config_fix", "END"}
            /\ heal_attempts = 0
            /\ tests_failed = 0
            /\ fixed_code = ""
            /\ sandbox_result = NoSandboxResult)
    /\ [](phase = "needs_human" => (pc = "END" /\ heal_action = "config_fix"))

C39_Witness ==
    /\ pc = "END"
    /\ phase = "needs_human"
    /\ heal_action = "config_fix"
    /\ heal_attempts = 0
    /\ sandbox_result = NoSandboxResult

-----------------------------------------------------------------------------
(* Exploration: the iteration counter, the routing and the round tags      *)

C37_RoundTags ==
    /\ \A i \in 1..Len(meeting_transcript) :
          /\ meeting_transcript[i].speaker =
                <<"CGO", "CRO", "COO", "CTO">>[((i - 1) % 4) + 1]
          /\ meeting_transcript[i].round =
                ((i - 1) \div 4) * 4 + ((i - 1) % 4) + 1
    /\ \A i \in 1..(Len(meeting_transcript) - 1) :
          meeting_transcript[i].round < meeting_transcript[i + 1].round

====
